---- MODULE Spec2Model ----
(***************************************************************************)
(* Model of tofu, the synthetic UK Biobank table generator:                *)
(*   helpers.py  the lookup tables and the value helpers                   *)
(*   tofu.py     the script that assembles the table and writes it         *)
(*                                                                         *)
(* Spec        one run of tofu.py, from the parsed arguments to to_csv;    *)
(*             call and ret record its last gen_dummy_data_for_field call. *)
(* HelpersSpec one call of a helper of helpers.py on enumerated inputs.    *)
(*                                                                         *)
(* Values are tagged so that values of different Python types compare      *)
(* unequal: [s |-> "1"] a str, [x |-> 5] a number, [d |-> k] a Timestamp   *)
(* (k days since 1970-01-01), [nan |-> TRUE] np.nan.  Numbers are held in  *)
(* units of 10^-5 so that round(x, 4) and round(x, None) do something.     *)
(* numpy.random is modelled as a nondeterministic choice: an operator that *)
(* draws returns the set of its possible results.                          *)
(***************************************************************************)
EXTENDS Integers, Sequences, FiniteSets, TLC

VARIABLES
    DF_FIELDS,          \* helpers.DF_FIELDS: the field metadata table
    args,               \* tofu.py: the parsed command line
    pc,                 \* tofu.py: position of the script
    df_output,          \* tofu.py: the DataFrame, a sequence of columns
    fields_to_process,  \* tofu.py: the fields the loop iterates, in order
    fi,                 \* index of the current field in fields_to_process
    i,                  \* instance index of the slice loop
    a,                  \* array index of the slice loop
    csv,                \* the tables written by to_csv, in order
    call,               \* the last helper call made: gen_dummy_data_for_field in a run
    ret                 \* what that call returned, or that it raised

vars == <<DF_FIELDS, args, pc, df_output, fields_to_process, fi, i, a, csv, call, ret>>

runVars == <<args, pc, df_output, fields_to_process, fi, i, a, csv>>

\* ------------------------------------------------------------------ bounds

\* Largest number of patients (-n) of a run.
MaxPatients == 1

\* Longest -f list of a run.
MaxFieldArgs == 2

\* Longest value sequence handed to a helper.
MaxLen == 3

\* How many values at each end of a large randint range are enumerated.
DrawEdge == 2

\* ------------------------------------------------------------------ values

None == [none |-> TRUE]

NaN == [nan |-> TRUE]

Str(s) == [s |-> s]

Num(x) == [x |-> x]

Date(d) == [d |-> d]

\* A Python list held where None may be held too.
List(seq) == [list |-> seq]

Range(seq) == {seq[k] : k \in 1..Len(seq)}

Min(x, y) == IF x <= y THEN x ELSE y

Max(x, y) == IF x >= y THEN x ELSE y

\* pd.to_datetime('YYYY-MM-DD') as a day number (days since 1970-01-01).
to_datetime(y, m, d) ==
    LET yy  == IF m <= 2 THEN y - 1 ELSE y
        era == yy \div 400
        yoe == yy - era * 400
        mp  == (m + 9) % 12
        doy == (153 * mp + 2) \div 5 + d - 1
        doe == yoe * 365 + yoe \div 4 - yoe \div 100 + doy
    IN  era * 146097 + doe - 719468

MIN_DATE == to_datetime(1910, 1, 1)

MAX_DATE == to_datetime(1990, 12, 31)

\* ------------------------------------------------------------------ tables

Field(id, title, vt, enc, imax, amax) ==
    [field_id |-> id, title |-> title, value_type |-> vt, encoding_id |-> enc,
     instance_max |-> imax, array_max |-> amax]

\* Rows the metadata table may hold (lookups/df_lkp_fields.tsv.gz).
AllFields ==
    << Field(3,     "Verbal interview duration", 11, 0,      2, 0),
       Field(20002, "Non-cancer illness code",   21, 6,      0, 2),
       Field(21002, "Weight",                    31, 0,      0, 0),
       Field(23098, "Weight",                    31, 0,      0, 0),
       Field(53,    "Date of attending",         51, 0,      0, 0),
       Field(41,    "Compound",                  41, 0,      0, 0),
       Field(99,    "Retired question",          22, 9,      0, 0),
       Field(699,   "Length of time",            11, 100291, 0, 0) >>

Catalog(ix) == [k \in 1..Len(ix) |-> AllFields[ix[k]]]

\* The metadata tables a run is checked on.
RunCatalogs == {Catalog(<<1, 3, 4>>), Catalog(<<2, 7>>), Catalog(<<5, 8, 6>>)}

\* The encodings table (lookups/df_lkp_encodings.csv.gz), in file order.
Encoding(enc, value, selectable, meaning) ==
    [encoding_id |-> enc, value |-> value, selectable |-> selectable, meaning |-> meaning]

DF_ENCODINGS ==
    << Encoding(6,      "-7",   0, "none of the above"),
       Encoding(6,      "1545", 0, "withdrawn code"),
       Encoding(6,      "1545", 1, "neck problem/injury"),
       Encoding(6,      "1164", 1, "pancreatic disease"),
       Encoding(6,      "1545", 1, "neck problem (duplicate)"),
       Encoding(7,      "1",    1, "Yes"),
       Encoding(9,      "0",    0, "not selectable"),
       Encoding(100291, "-1",   1, "Do not know") >>

\* The statistics table (lookups/df_showcase_desc_stats.csv.gz); mean and sd in 10^-5.
DF_STATS ==
    << [field_id |-> 21002, mean |-> 7805123, sd |-> 1590455],
       [field_id |-> 3,     mean |-> 52537555, sd |-> 21000000] >>

\* ------------------------------------------------------------------ numpy.random

\* Mutant of randint: the upper end is drawn too, as random.randint does.
randint_closed(low, high) ==
    (low .. Min(low + DrawEdge - 1, high)) \cup (Max(high - DrawEdge + 1, low) .. high)

\* np.random.randint(low, high): the values a draw may take.  A range of at
\* most 2 * DrawEdge values is enumerated whole, a larger one at both ends.
randint(low, high) ==
    (low .. Min(low + DrawEdge - 1, high - 1)) \cup (Max(high - DrawEdge, low) .. (high - 1))

\* np.random.normal(loc, scale): the values a draw may take (in 10^-5).
normal(loc, scale) == {loc - scale, loc + scale \div 3}

\* Mutant of np_empty: an array without elements.
np_empty_none(n) == {<<>>}

\* np.empty(n): n elements, each whatever the memory held.
np_empty(n) == [1..n -> {Num(0), Num(-31072)}]

\* Python's round(x, ndigits) on a number held in 10^-5: half to even, to
\* 10^-ndigits (ndigits = [digits |-> 4]), or to an integer when ndigits is None.
round(x, ndigits) ==
    LET unit == IF ndigits = None THEN 100000 ELSE 10 ^ (5 - ndigits.digits)
        q    == x \div unit
        r    == x % unit
    IN  IF 2 * r < unit THEN q * unit
        ELSE IF 2 * r > unit THEN (q + 1) * unit
        ELSE IF q % 2 = 0 THEN q * unit ELSE (q + 1) * unit

\* ------------------------------------------------------------------ helpers.py

get_field_ids == [k \in 1..Len(DF_FIELDS) |-> DF_FIELDS[k].field_id]

get_field_metadata(field_id) ==
    LET df == SelectSeq(DF_FIELDS, LAMBDA r : r.field_id = field_id)
    IN  IF Len(df) = 0 THEN None ELSE df[1]

gen_fake_ids(n) == [x \in 1..n |-> Str("fake" \o ToString(x))]

\* Mutant of get_encoding_id_values: the selectable flag is not looked at.
get_encoding_id_values_all(field_encoding_id) ==
    LET m(e) == e.encoding_id = field_encoding_id
        df_value_lookup == SelectSeq(DF_ENCODINGS, m)
    IN  [k \in 1..Len(df_value_lookup) |-> df_value_lookup[k].value]

get_encoding_id_values(field_encoding_id) ==
    LET m(e) == e.encoding_id = field_encoding_id /\ e.selectable # 0
        df_value_lookup == SelectSeq(DF_ENCODINGS, m)
    IN  [k \in 1..Len(df_value_lookup) |-> df_value_lookup[k].value]

\* Mutant of choice: an empty population gives n missing values.
choice_lenient(values, n) ==
    IF Len(values) = 0 THEN {[k \in 1..n |-> NaN]}
    ELSE {[k \in 1..n |-> Str(values[ix[k]])] : ix \in [1..n -> 1..Len(values)]}

\* np.random.choice(values, n).tolist(), as the set of its possible results: it
\* raises (no result) on an empty population unless no sample is taken.
choice(values, n) ==
    IF Len(values) = 0 /\ n # 0 THEN {}
    ELSE {[k \in 1..n |-> Str(values[ix[k]])] : ix \in [1..n -> 1..Len(values)]}

\* The results gen_dummy_data_for_field(field_id, n) may return; none when it raises.
gen_dummy_data_for_field(field_id, n) ==
    LET field_metadata    == get_field_metadata(field_id)
        field_encoding_id == field_metadata.encoding_id
        field_data_type   == field_metadata.value_type
    IN  IF field_metadata = None THEN {}
        ELSE IF field_data_type \in {51, 61} THEN
            LET d == (MAX_DATE - MIN_DATE) + 1
            IN  {[k \in 1..n |-> Date(MIN_DATE + off[k])] : off \in [1..n -> randint(0, d)]}
        ELSE IF field_data_type \in {21, 22} THEN
            choice(get_encoding_id_values(field_encoding_id), n)
        ELSE IF field_data_type \in {31, 11} THEN
            LET df_entry == SelectSeq(DF_STATS, LAMBDA r : r.field_id = field_id)
                mean == IF Len(df_entry) # 0 THEN df_entry[1].mean ELSE 0
                sd   == IF Len(df_entry) # 0 THEN df_entry[1].sd ELSE 100000
                dec  == IF field_data_type = 11 THEN None ELSE [digits |-> 4]
            IN  {[k \in 1..n |-> Num(round(x[k], dec))] : x \in [1..n -> normal(mean, sd)]}
        ELSE np_empty(n)

gen_field_name(field_id, inst, arr, human) ==
    IF human
    THEN get_field_metadata(field_id).title \o "-" \o ToString(inst) \o "." \o ToString(arr)
    ELSE ToString(field_id) \o "-" \o ToString(inst) \o "." \o ToString(arr)

\* a with a[ix[1]], a[ix[2]], ... (0-based) set to np.nan.
SetNaN(values, ix) == [k \in 1..Len(values) |-> IF (k - 1) \in Range(ix) THEN NaN ELSE values[k]]

\* Mutant of insert_missingness: the number of positions is rounded up.
insert_missingness_ceil(values, perc) ==
    LET total_values == Len(values)
        howmany      == (total_values * perc + 99) \div 100
    IN  {SetNaN(values, random_ind_to_empty) :
            random_ind_to_empty \in [1..howmany -> randint(0, total_values)]}

\* The results insert_missingness(a, perc) may return.
insert_missingness(values, perc) ==
    LET total_values == Len(values)
        howmany      == (total_values * perc) \div 100
    IN  {SetNaN(values, random_ind_to_empty) :
            random_ind_to_empty \in [1..howmany -> randint(0, total_values)]}

\* Mutant of decode_value: the last match is taken.
decode_value_last(value, df_value_lookup) ==
    LET expanded_value == SelectSeq(df_value_lookup, LAMBDA e : Str(e.value) = value)
    IN  IF Len(expanded_value) > 0 THEN Str(expanded_value[Len(expanded_value)].meaning) ELSE value

decode_value(value, df_value_lookup) ==
    LET expanded_value == SelectSeq(df_value_lookup, LAMBDA e : Str(e.value) = value)
    IN  IF Len(expanded_value) > 0 THEN Str(expanded_value[1].meaning) ELSE value

decode_values(values, field_id) ==
    LET field_metadata    == get_field_metadata(field_id)
        field_encoding_id == field_metadata.encoding_id
        m(e) == e.encoding_id = field_encoding_id /\ e.selectable # 0
        df_value_lookup == SelectSeq(DF_ENCODINGS, m)
    IN  IF field_encoding_id = 0 THEN values
        ELSE [k \in 1..Len(values) |-> decode_value(values[k], df_value_lookup)]

\* ------------------------------------------------------------------ tofu.py

\* jitter_type accepts 0 <= x < 100; the percentages a run is checked on.
JitterChoices == {0, 50, 99}

\* The ids a -f list is drawn from: those of the table and one it lacks.
FieldIdChoices == Range(get_field_ids) \cup {999999}

SeqsUpTo(S, n) == UNION {[1..k -> S] : k \in 0..n}

\* The orders in which a Python set may be iterated.
SetOrders(S) == {o \in [1..Cardinality(S) -> S] : \A p, q \in 1..Cardinality(S) : o[p] = o[q] => p = q}

field_instance_max(r) == IF r.instance_max = 0 THEN 1 ELSE r.instance_max

field_array_max(r) == IF r.array_max = 0 THEN 1 ELSE r.array_max

ColumnNames(df) == [k \in 1..Len(df) |-> df[k].name]

\* df[name] = values: a new column is appended, an existing one is replaced in place.
SetColumn(df, name, values) ==
    IF \E k \in 1..Len(df) : df[k].name = name
    THEN [k \in 1..Len(df) |-> IF df[k].name = name THEN [name |-> name, values |-> values] ELSE df[k]]
    ELSE Append(df, [name |-> name, values |-> values])

NoCall == [op |-> "none"]

Returned(v) == [value |-> v]

Raised == [raised |-> TRUE]

NoRun ==
    /\ args = None
    /\ pc = "idle"
    /\ df_output = <<>>
    /\ fields_to_process = <<>>
    /\ fi = 0
    /\ i = 0
    /\ a = 0
    /\ csv = <<>>

Init ==
    /\ DF_FIELDS \in RunCatalogs
    /\ args \in [field  : {None} \cup {List(l) : l \in SeqsUpTo(FieldIdChoices, MaxFieldArgs)},
                 n      : 0..MaxPatients,
                 human  : BOOLEAN,
                 jitter : JitterChoices]
    /\ pc = "ids"
    /\ df_output = <<>>
    /\ fields_to_process = <<>>
    /\ fi = 0
    /\ i = 0
    /\ a = 0
    /\ csv = <<>>
    /\ call = NoCall
    /\ ret = None

\* df_output = pd.DataFrame(); df_output['eid'] = helpers.gen_fake_ids(TOTAL_PATIENTS)
GenIds ==
    /\ pc = "ids"
    /\ df_output' = SetColumn(<<>>, "eid", gen_fake_ids(args.n))
    /\ pc' = "select"
    /\ UNCHANGED <<DF_FIELDS, args, fields_to_process, fi, i, a, csv, call, ret>>

\* The fields the loop will iterate: the known ids among args.field, a set, or
\* every id of the table in table order.  The assertion fails on an empty set.
SelectFields ==
    /\ pc = "select"
    /\ IF args.field # None
       THEN LET all_field_ids == get_field_ids
                found == Range(all_field_ids) \cap Range(args.field.list)
            IN  IF Cardinality(found) > 0
                THEN /\ fields_to_process' \in SetOrders(found)
                     /\ pc' = "loop"
                ELSE /\ fields_to_process' = fields_to_process
                     /\ pc' = "failed"
       ELSE /\ fields_to_process' = get_field_ids
            /\ pc' = "loop"
    /\ fi' = 1
    /\ UNCHANGED <<DF_FIELDS, args, df_output, i, a, csv, call, ret>>

\* The head of the field loop: the metadata is fetched (r['title'] raises on None)
\* and the slice loops start.
FieldStart ==
    /\ pc = "loop"
    /\ fi <= Len(fields_to_process)
    /\ LET r == get_field_metadata(fields_to_process[fi])
       IN  pc' = IF r = None THEN "failed" ELSE "slice"
    /\ i' = 0
    /\ a' = 0
    /\ UNCHANGED <<DF_FIELDS, args, df_output, fields_to_process, fi, csv, call, ret>>

\* One pass of the body of the slice loops, for instance i and array index a.
\* An exception of gen_dummy_data_for_field ends the script.
ProcessSlice ==
    /\ pc = "slice"
    /\ LET field_id == fields_to_process[fi]
           r        == get_field_metadata(field_id)
           field_canonical_name == gen_field_name(field_id, i, a, args.human)
       IN  /\ call' = [op |-> "gen_dummy_data_for_field", field_id |-> field_id, n |-> args.n]
           /\ IF gen_dummy_data_for_field(field_id, args.n) = {}
              THEN /\ ret' = Raised
                   /\ pc' = "failed"
                   /\ UNCHANGED <<df_output, fi, i, a>>
              ELSE \E generated \in gen_dummy_data_for_field(field_id, args.n) :
                  LET decoded == IF args.human THEN decode_values(generated, field_id) ELSE generated
                  IN  /\ ret' = Returned(generated)
                      /\ \E dummy_values \in (IF args.jitter > 0
                                              THEN insert_missingness(decoded, args.jitter)
                                              ELSE {decoded}) :
                            df_output' = SetColumn(df_output, field_canonical_name, dummy_values)
                      /\ IF a + 1 < field_array_max(r)
                         THEN /\ a' = a + 1
                              /\ UNCHANGED <<pc, fi, i>>
                         ELSE IF i + 1 < field_instance_max(r)
                         THEN /\ i' = i + 1
                              /\ a' = 0
                              /\ UNCHANGED <<pc, fi>>
                         ELSE /\ fi' = fi + 1
                              /\ pc' = "loop"
                              /\ UNCHANGED <<i, a>>
    /\ UNCHANGED <<DF_FIELDS, args, fields_to_process, csv>>

\* Mutant of WriteOutput: the table is written inside the field loop.
WriteOutputInLoop ==
    /\ pc = "loop"
    /\ csv' = Append(csv, df_output)
    /\ pc' = IF fi > Len(fields_to_process) THEN "done" ELSE pc
    /\ UNCHANGED <<DF_FIELDS, args, df_output, fields_to_process, fi, i, a, call, ret>>

\* df_output.to_csv(args.out, index=False), after the field loop.
WriteOutput ==
    /\ pc = "loop"
    /\ fi > Len(fields_to_process)
    /\ csv' = Append(csv, df_output)
    /\ pc' = "done"
    /\ UNCHANGED <<DF_FIELDS, args, df_output, fields_to_process, fi, i, a, call, ret>>

Next ==
    \/ GenIds
    \/ SelectFields
    \/ FieldStart
    \/ ProcessSlice
    \/ WriteOutput

Spec == Init /\ [][Next]_vars

\* ------------------------------------------------------------------ helper calls
\* The helpers read the tables and nothing else: one call is made per behaviour.

\* The values a sequence handed to a helper is made of.
ValueChoices ==
    {Str("1545"), Str("1164"), Str("-7"), Str("-1"), Str("neck problem/injury"), Num(-100000), NaN}

HelpersInit ==
    /\ DF_FIELDS = AllFields
    /\ NoRun
    /\ call = NoCall
    /\ ret = None

CallGetFieldMetadata ==
    /\ call = NoCall
    /\ \E field_id \in FieldIdChoices :
        /\ call' = [op |-> "get_field_metadata", field_id |-> field_id]
        /\ ret' = Returned(get_field_metadata(field_id))
    /\ UNCHANGED <<DF_FIELDS, runVars>>

CallGetEncodingIdValues ==
    /\ call = NoCall
    /\ \E field_encoding_id \in {0} \cup {DF_ENCODINGS[k].encoding_id : k \in 1..Len(DF_ENCODINGS)} :
        /\ call' = [op |-> "get_encoding_id_values", field_encoding_id |-> field_encoding_id]
        /\ ret' = Returned(get_encoding_id_values(field_encoding_id))
    /\ UNCHANGED <<DF_FIELDS, runVars>>

CallGenDummyDataForField ==
    /\ call = NoCall
    /\ \E field_id \in FieldIdChoices, n \in 0..MaxLen :
        /\ call' = [op |-> "gen_dummy_data_for_field", field_id |-> field_id, n |-> n]
        /\ IF gen_dummy_data_for_field(field_id, n) = {}
           THEN ret' = Raised
           ELSE \E dummy_values \in gen_dummy_data_for_field(field_id, n) : ret' = Returned(dummy_values)
    /\ UNCHANGED <<DF_FIELDS, runVars>>

CallInsertMissingness ==
    /\ call = NoCall
    /\ \E values \in SeqsUpTo(ValueChoices, MaxLen), perc \in JitterChoices :
        /\ call' = [op |-> "insert_missingness", a |-> values, perc |-> perc]
        /\ \E result \in insert_missingness(values, perc) : ret' = Returned(result)
    /\ UNCHANGED <<DF_FIELDS, runVars>>

CallDecodeValues ==
    /\ call = NoCall
    /\ \E values \in SeqsUpTo(ValueChoices, MaxLen), field_id \in FieldIdChoices :
        /\ call' = [op |-> "decode_values", values |-> values, field_id |-> field_id]
        /\ ret' = IF get_field_metadata(field_id) = None
                  THEN Raised
                  ELSE Returned(decode_values(values, field_id))
    /\ UNCHANGED <<DF_FIELDS, runVars>>

HelpersNext ==
    \/ CallGetFieldMetadata
    \/ CallGetEncodingIdValues
    \/ CallGenDummyDataForField
    \/ CallInsertMissingness
    \/ CallDecodeValues

HelpersSpec == HelpersInit /\ [][HelpersNext]_vars

\* ------------------------------------------------------------------ properties of a run

Known(field_id) == get_field_metadata(field_id) # None

\* The slices of a known field: its (instance, array) index pairs.
Slices(field_id) ==
    LET r == get_field_metadata(field_id)
    IN  (0 .. field_instance_max(r) - 1) \X (0 .. field_array_max(r) - 1)

\* A categorical field whose encoding has no selectable entry.
EmptyCategorical(field_id) ==
    LET r == get_field_metadata(field_id)
    IN  /\ r.value_type \in {21, 22}
        /\ ~ \E k \in 1..Len(DF_ENCODINGS) :
               DF_ENCODINGS[k].encoding_id = r.encoding_id /\ DF_ENCODINGS[k].selectable # 0

RECURSIVE SumSlices(_)
SumSlices(ids) ==
    IF ids = {} THEN 0
    ELSE LET f == CHOOSE x \in ids : TRUE
         IN  Cardinality(Slices(f)) + SumSlices(ids \ {f})

\* The column names of one field, instance by instance and, within one, array
\* index by array index.
FieldNames(field_id, human) ==
    LET r == get_field_metadata(field_id)
        A == field_array_max(r)
    IN  [k \in 1..(field_instance_max(r) * A) |->
            gen_field_name(field_id, (k - 1) \div A, (k - 1) % A, human)]

RECURSIVE NamesInOrder(_, _)
NamesInOrder(ids, human) ==
    IF ids = <<>> THEN <<>>
    ELSE FieldNames(Head(ids), human) \o NamesInOrder(Tail(ids), human)

\* The known ids of a list in the order of their first occurrence.
RECURSIVE KnownInListOrder(_)
KnownInListOrder(list) ==
    IF list = <<>> THEN <<>>
    ELSE LET front == KnownInListOrder(SubSeq(list, 1, Len(list) - 1))
             last  == list[Len(list)]
         IN  IF Known(last) /\ last \notin Range(front) THEN Append(front, last) ELSE front

\* C1: a run given a list of field ids of which at least one is not in the
\* metadata table fails and writes no output, also when the list holds known ids.
C1_UnknownIdFailsRun ==
    (args.field # None /\ \E id \in Range(args.field.list) : ~Known(id)) => csv = <<>>

C3_OneColumnPerSlice ==
    pc = "done" =>
        /\ Len(df_output) = 1 + SumSlices(Range(fields_to_process))
        /\ \A p, q \in 1..Len(df_output) : df_output[p].name = df_output[q].name => p = q
        /\ \A p \in 1..Len(df_output) : Len(df_output[p].values) = args.n

\* C8 as claimed: gen_dummy_data_for_field raises for a categorical field
\* without selectable values whatever the count asked for, and the run that
\* called it has failed.
C8_EmptyCategoricalFailsAnyN ==
    (call.op = "gen_dummy_data_for_field" /\ EmptyCategorical(call.field_id)) =>
        (ret = Raised /\ pc = "failed")

\* C8 amended: for a categorical field without selectable values and a count of
\* at least 1, gen_dummy_data_for_field raises and the run fails there, at the
\* field's first slice, with no column inserted for the field and nothing
\* written, then or later; asked for no value, it returns the empty sequence.
C8_EmptyCategoricalFails ==
    /\ (call.op = "gen_dummy_data_for_field" /\ EmptyCategorical(call.field_id)) =>
          IF call.n >= 1
          THEN /\ ret = Raised
               /\ pc = "failed"
               /\ fields_to_process[fi] = call.field_id
               /\ i = 0 /\ a = 0
               /\ gen_field_name(call.field_id, 0, 0, args.human) \notin Range(ColumnNames(df_output))
               /\ csv = <<>>
          ELSE ret = Returned(<<>>)
    /\ args.n >= 1 =>
          \A k \in 1..Len(fields_to_process) :
              EmptyCategorical(fields_to_process[k]) => (fi <= k /\ pc # "done")

\* C8 witness: a run with a patient has failed at such a field, after columns
\* of another field were inserted.
C8_Witness ==
    /\ pc = "failed"
    /\ call.op = "gen_dummy_data_for_field"
    /\ call.n >= 1
    /\ EmptyCategorical(call.field_id)
    /\ ret = Raised
    /\ Len(df_output) > 1

\* C9: the identifier column is first and the field columns follow in processing
\* order: the order of the supplied list, or table order without a list; the
\* slices of a field by instance, then by array index.  Stated for canonical names.
C9_ColumnsInSuppliedOrder ==
    (pc = "done" /\ ~args.human) =>
        ColumnNames(df_output) =
            <<"eid">> \o NamesInOrder(IF args.field # None
                                      THEN KnownInListOrder(args.field.list)
                                      ELSE get_field_ids, FALSE)

\* ------------------------------------------------------------------ properties of the helpers

\* The entries of the encodings table a field may draw from, as table indexes.
SelectableEntries(field_id) ==
    {j \in 1..Len(DF_ENCODINGS) :
        /\ DF_ENCODINGS[j].encoding_id = get_field_metadata(field_id).encoding_id
        /\ DF_ENCODINGS[j].selectable # 0}

IsDate(v) == DOMAIN v = {"d"}

NaNCount(values) == Cardinality({k \in 1..Len(values) : values[k] = NaN})

\* What decode is to make of one value for a field with an encoding.
Decoded(v, field_id) ==
    LET hits == {j \in SelectableEntries(field_id) : Str(DF_ENCODINGS[j].value) = v}
    IN  IF hits = {} THEN v
        ELSE Str(DF_ENCODINGS[CHOOSE j \in hits : \A h \in hits : j <= h].meaning)

\* C4: for a known field, gen_dummy_data_for_field(field_id, n) returns exactly
\* n values for every n >= 0, whatever the value type, unless the field is
\* categorical and nothing of its encoding is selectable.
C4_GeneratesNValues ==
    (/\ call.op = "gen_dummy_data_for_field"
     /\ Known(call.field_id)
     /\ ~EmptyCategorical(call.field_id))
        => (ret # Raised /\ Len(ret.value) = call.n)

\* C4 witness: a field of a type that is neither date, categorical nor numeric
\* has been asked for values.
C4_Witness ==
    /\ call.op = "gen_dummy_data_for_field"
    /\ Known(call.field_id)
    /\ get_field_metadata(call.field_id).value_type \notin {51, 61, 21, 22, 31, 11}
    /\ call.n = MaxLen
    /\ ret # Raised
    /\ Len(ret.value) = MaxLen

\* C5: every value generated for a categorical field is the value of a
\* selectable entry of the field's own encoding.
C5_CategoricalValuesSelectable ==
    (/\ call.op = "gen_dummy_data_for_field"
     /\ Known(call.field_id)
     /\ get_field_metadata(call.field_id).value_type \in {21, 22}
     /\ ret # Raised)
        => \A k \in 1..Len(ret.value) :
              \E j \in SelectableEntries(call.field_id) :
                  ret.value[k] = Str(DF_ENCODINGS[j].value)

\* C5 witness: values have been generated for a categorical field whose
\* encoding also has entries that are not selectable.
C5_Witness ==
    /\ call.op = "gen_dummy_data_for_field"
    /\ Known(call.field_id)
    /\ get_field_metadata(call.field_id).value_type \in {21, 22}
    /\ ret # Raised
    /\ Len(ret.value) >= 2
    /\ ret.value[1] # ret.value[2]

\* C6: decode_values keeps length and order; without an encoding it returns its
\* input, and with one each element becomes the meaning of the first selectable
\* entry of the field's encoding with that value, or stays as it is.
C6_DecodeFirstSelectable ==
    (call.op = "decode_values" /\ Known(call.field_id)) =>
        /\ ret # Raised
        /\ Len(ret.value) = Len(call.values)
        /\ \A k \in 1..Len(call.values) :
              ret.value[k] =
                  IF get_field_metadata(call.field_id).encoding_id = 0
                  THEN call.values[k]
                  ELSE Decoded(call.values[k], call.field_id)

\* C6 witness: one call decoded a value that several entries carry, and left
\* alone a value that only an entry that is not selectable carries.
C6_Witness ==
    /\ call.op = "decode_values"
    /\ call.field_id = 20002
    /\ call.values = <<Str("1545"), Str("-7"), Str("neck problem/injury")>>
    /\ ret = Returned(<<Str("neck problem/injury"), Str("-7"), Str("neck problem/injury")>>)

\* C7: on a sequence without np.nan and a percentage in [0, 100),
\* insert_missingness returns a sequence of the same length with at most
\* floor(len * percent / 100) np.nan and every other position as it was.
C7_MissingnessBounded ==
    (call.op = "insert_missingness" /\ NaN \notin Range(call.a)) =>
        /\ ret # Raised
        /\ Len(ret.value) = Len(call.a)
        /\ 100 * NaNCount(ret.value) <= Len(call.a) * call.perc
        /\ \A k \in 1..Len(call.a) : ret.value[k] # NaN => ret.value[k] = call.a[k]

\* C7 witness: two positions were asked for and a collision left one np.nan.
C7_Witness ==
    /\ call.op = "insert_missingness"
    /\ NaN \notin Range(call.a)
    /\ Len(call.a) = 3
    /\ call.perc = 99
    /\ NaNCount(ret.value) = 1

\* C10: every value generated for a date or time field is the minimum date plus
\* a whole number of days between 0 and the days from the minimum to the maximum
\* date: none is before 1910-01-01 or after 1990-12-31.
C10_DatesWithinBounds ==
    (/\ call.op = "gen_dummy_data_for_field"
     /\ Known(call.field_id)
     /\ get_field_metadata(call.field_id).value_type \in {51, 61})
        => /\ ret # Raised
           /\ \A k \in 1..Len(ret.value) :
                /\ IsDate(ret.value[k])
                /\ ret.value[k].d - to_datetime(1910, 1, 1) \in 0 .. 29584
                /\ ret.value[k].d <= to_datetime(1990, 12, 31)

\* C10 witness: one call returned both the minimum and the maximum date.
C10_Witness ==
    /\ call.op = "gen_dummy_data_for_field"
    /\ Known(call.field_id)
    /\ get_field_metadata(call.field_id).value_type \in {51, 61}
    /\ ret # Raised
    /\ Date(MIN_DATE) \in Range(ret.value)
    /\ Date(MAX_DATE) \in Range(ret.value)
    /\ MAX_DATE - MIN_DATE = 29584

====
